---- MODULE Spec2Model ----
(***************************************************************************)
(* A model of the nautobot-jobs repository: the device component update    *)
(* job (jobs/device_component_update.py), the device name update job       *)
(* (jobs/device_names.py), the port label update job (jobs/port_labels.py) *)
(* and the helpers of jobs/util.py.  The data store (devices, device       *)
(* types, templates, components, ports) is the state; every job is a       *)
(* sequential program whose position in its loops is part of the state.    *)
(***************************************************************************)
EXTENDS Integers, Sequences, FiniteSets, Bags, TLC

(***************************************************************************)
(* Python values.                                                          *)
(***************************************************************************)
\* None for string-valued attributes of a FieldUpdate.
None == "None"
\* None for object-valued attributes (a relationship that is not set).
NoneObj == <<>>
\* The value of a plain field of a model instance that was never assigned.
Blank == ""
\* A field value the platform's validation refuses when a component is saved.
Rejected == "rejected"

(***************************************************************************)
(* The data store: device types, devices, statuses.                        *)
(***************************************************************************)
DeviceTypes == {1, 2}
Devices == {1, 2, 3}
\* devices 1 and 3 are of device type 1, device 2 is of device type 2
DeviceTypeOf(d) == IF d = 2 THEN 2 ELSE 1
\* Status.objects: statuses are referred to as <<name>>
StatusObjects == {<<"Active">>, <<"Planned">>}

(***************************************************************************)
(* FieldUpdate and TemplateUpdate descriptors.                             *)
(***************************************************************************)
FieldUpdate(name, template_name, default_value, key_field, query_from) ==
    [name |-> name, template_name |-> template_name, default_value |-> default_value,
     key_field |-> key_field, query_from |-> query_from]

\* TemplateUpdate.__post_init__: a field given as a string becomes FieldUpdate(name=field)
PostInit(field) == FieldUpdate(field, None, None, None, None)

TemplateUpdate(src, dst, key_field, fields) ==
    [src |-> src, dst |-> dst, key_field |-> key_field, fields |-> fields]

\* A variant of TEMPLATE_UPDATES that lists the front ports before the rear ports.
TEMPLATE_UPDATES_FrontFirst ==
    << TemplateUpdate("interface_templates", "interfaces", "name",
          << PostInit("name"), PostInit("label"), PostInit("type"), PostInit("mgmt_only"),
             FieldUpdate("status", None, "Active", "name", "Status.objects") >>),
       TemplateUpdate("front_port_templates", "front_ports", "name",
          << PostInit("name"), PostInit("label"), PostInit("type"),
             FieldUpdate("rear_port", "rear_port_template", None, "name", "device.rear_ports") >>),
       TemplateUpdate("rear_port_templates", "rear_ports", "name",
          << PostInit("name"), PostInit("label"), PostInit("type") >>),
       TemplateUpdate("console_port_templates", "console_ports", "name",
          << PostInit("name"), PostInit("label"), PostInit("type") >>),
       TemplateUpdate("console_server_port_templates", "console_server_ports", "name",
          << PostInit("name"), PostInit("label"), PostInit("type") >>),
       TemplateUpdate("power_port_templates", "power_ports", "name",
          << PostInit("name"), PostInit("label"), PostInit("type"),
             PostInit("maximum_draw"), PostInit("allocated_draw") >>),
       TemplateUpdate("power_outlet_templates", "power_outlets", "name",
          << PostInit("name"), PostInit("label"), PostInit("type"),
             FieldUpdate("power_port", "power_port_template", None, "name", "device.power_ports"),
             PostInit("feed_leg") >>),
       TemplateUpdate("device_bay_templates", "device_bays", "name",
          << PostInit("name"), PostInit("label") >>) >>

TEMPLATE_UPDATES ==
    << TemplateUpdate("interface_templates", "interfaces", "name",
          << PostInit("name"), PostInit("label"), PostInit("type"), PostInit("mgmt_only"),
             FieldUpdate("status", None, "Active", "name", "Status.objects") >>),
       TemplateUpdate("rear_port_templates", "rear_ports", "name",
          << PostInit("name"), PostInit("label"), PostInit("type") >>),
       TemplateUpdate("front_port_templates", "front_ports", "name",
          << PostInit("name"), PostInit("label"), PostInit("type"),
             FieldUpdate("rear_port", "rear_port_template", None, "name", "device.rear_ports") >>),
       TemplateUpdate("console_port_templates", "console_ports", "name",
          << PostInit("name"), PostInit("label"), PostInit("type") >>),
       TemplateUpdate("console_server_port_templates", "console_server_ports", "name",
          << PostInit("name"), PostInit("label"), PostInit("type") >>),
       TemplateUpdate("power_port_templates", "power_ports", "name",
          << PostInit("name"), PostInit("label"), PostInit("type"),
             PostInit("maximum_draw"), PostInit("allocated_draw") >>),
       TemplateUpdate("power_outlet_templates", "power_outlets", "name",
          << PostInit("name"), PostInit("label"), PostInit("type"),
             FieldUpdate("power_port", "power_port_template", None, "name", "device.power_ports"),
             PostInit("feed_leg") >>),
       TemplateUpdate("device_bay_templates", "device_bays", "name",
          << PostInit("name"), PostInit("label") >>) >>

NumTemplateUpdates == Len(TEMPLATE_UPDATES)

\* the relationship fields of the component models (foreign keys)
RelationFields == {"status", "rear_port", "power_port"}

\* the relationship fields that may be left unset (null=True): reading one that is
\* unset yields None, reading any other that is unset raises ObjectDoesNotExist
NullableFields == {"power_port"}

\* dst.model(): a new, unsaved component; no field is set yet
NewObject(dst) ==
    LET tu == CHOOSE u \in {TEMPLATE_UPDATES[i] : i \in 1..NumTemplateUpdates} : u.dst = dst
        names == {tu.fields[i].name : i \in 1..Len(tu.fields)}
    IN [f \in names |-> IF f \in RelationFields THEN NoneObj ELSE Blank]

(***************************************************************************)
(* Rows, references and query managers.                                    *)
(*                                                                         *)
(* A stored component is a row [device, dst, vals]; the table of           *)
(* components is a bag of rows.  An object is referred to by a tuple whose *)
(* last element is its name: <<dst, device, name>> for a component,        *)
(* <<name>> for a status or for the template a template relates to.        *)
(***************************************************************************)
Name(ref) == ref[Len(ref)]

Ref(row) == <<row.dst, row.device, row.vals.name>>

\* A variant of Rows that holds the rows of every device.
Rows_AnyDevice(db, device, dst) == {r \in BagToSet(db) : r.dst = dst}

\* getattr(device, dst): the related manager of a device, as the rows it holds
Rows(db, device, dst) == {r \in BagToSet(db) : r.device = device /\ r.dst = dst}

\* manager.get(**{key_field: key}) raises ObjectDoesNotExist when Matching is empty
Matching(manager, key) == {o \in manager : Name(o) = key}

\* A variant of attrgetter that yields the manager of every device's components.
attrgetter_AnyDevice(path, dst_obj, db) ==
    LET dst == CASE path = "device.rear_ports" -> "rear_ports"
                 [] path = "device.power_ports" -> "power_ports"
    IN {Ref(r) : r \in {x \in BagToSet(db) : x.dst = dst}}

\* FieldUpdate.get_values, lines 67-70: the query manager of a relationship field.
\* A string is an attribute path from the destination object; the managers the
\* model has are those of the object's device.
attrgetter(path, dst_obj, db) ==
    LET dst == CASE path = "device.rear_ports" -> "rear_ports"
                 [] path = "device.power_ports" -> "power_ports"
    IN {Ref(r) : r \in Rows(db, dst_obj.device, dst)}

QueryManager(self, dst_obj, db) ==
    IF self.query_from = "Status.objects" THEN StatusObjects
    ELSE attrgetter(self.query_from, dst_obj, db)

(***************************************************************************)
(* FieldUpdate.get_values and FieldUpdate.update.                          *)
(* A result carries exc: "" when the call returns, the exception's name    *)
(* when it raises.                                                         *)
(***************************************************************************)
\* A variant of DirectValues that prefers the template's value to the default.
DirectValues_TemplateFirst(self, dst_obj, template_obj) ==
    IF template_obj # NoneObj
    THEN [exc |-> "", old |-> dst_obj.vals[self.name], new |-> template_obj.vals[self.name]]
    ELSE IF self.default_value # None
    THEN [exc |-> "", old |-> dst_obj.vals[self.name], new |-> self.default_value]
    ELSE [exc |-> "AttributeError", old |-> NoneObj, new |-> NoneObj]

\* get_values, lines 58-63: a field that is set directly
DirectValues(self, dst_obj, template_obj) ==
    IF self.default_value = None
    THEN IF template_obj = NoneObj
         THEN [exc |-> "AttributeError", old |-> NoneObj, new |-> NoneObj]
         ELSE [exc |-> "", old |-> dst_obj.vals[self.name],
               new |-> template_obj.vals[self.name]]
    ELSE [exc |-> "", old |-> dst_obj.vals[self.name], new |-> self.default_value]

\* A variant of NewValue that applies the default to a saved object too.
NewValue_DefaultAlways(self, dst_obj, template_obj, query_manager, old_value) ==
    LET src_name == IF self.template_name = None THEN self.name ELSE self.template_name
        key == IF self.default_value = None
               THEN Name(template_obj.vals[src_name]) ELSE self.default_value
        new_found == Matching(query_manager, key)
    IN IF new_found = {}
       THEN [exc |-> "ObjectDoesNotExist", old |-> NoneObj, new |-> NoneObj]
       ELSE [exc |-> "", old |-> IF self.default_value = None THEN old_value ELSE NoneObj,
             new |-> CHOOSE o \in new_found : TRUE]

\* get_values, lines 77-87: the new value of a relationship field
NewValue(self, dst_obj, template_obj, query_manager, old_value) ==
    LET src_name == IF self.template_name = None THEN self.name ELSE self.template_name
    IN IF self.default_value = None
       THEN IF template_obj = NoneObj \/ template_obj.vals[src_name] = NoneObj
            THEN [exc |-> "AttributeError", old |-> NoneObj, new |-> NoneObj]
            ELSE LET new_found == Matching(query_manager, Name(template_obj.vals[src_name]))
                 IN IF new_found = {}
                    THEN [exc |-> "ObjectDoesNotExist", old |-> NoneObj, new |-> NoneObj]
                    ELSE [exc |-> "", old |-> old_value,
                          new |-> CHOOSE o \in new_found : TRUE]
       ELSE IF dst_obj.adding
            THEN LET new_found == Matching(query_manager, self.default_value)
                 IN IF new_found = {}
                    THEN [exc |-> "ObjectDoesNotExist", old |-> NoneObj, new |-> NoneObj]
                    ELSE [exc |-> "", old |-> NoneObj,
                          new |-> CHOOSE o \in new_found : TRUE]
            ELSE [exc |-> "", old |-> old_value, new |-> old_value]

\* FieldUpdate.get_values(dst_obj, template_obj); reading a field of None is an
\* AttributeError
get_values(self, dst_obj, template_obj, db) ==
    IF dst_obj = NoneObj
    THEN [exc |-> "AttributeError", old |-> NoneObj, new |-> NoneObj]
    ELSE IF self.key_field = None
    THEN DirectValues(self, dst_obj, template_obj)
    ELSE
      LET query_manager == QueryManager(self, dst_obj, db)
          current == dst_obj.vals[self.name]
          \* lines 72-76: a relation that is not set, or names no object of the
          \* manager, raises ObjectDoesNotExist, which is caught
          old_found == IF current = NoneObj THEN {}
                       ELSE Matching(query_manager, Name(current))
          old_value == IF old_found = {} THEN NoneObj ELSE CHOOSE o \in old_found : TRUE
      IN IF current = NoneObj /\ self.name \in NullableFields
         \* line 73: getattr(None, key_field) is not an ObjectDoesNotExist
         THEN [exc |-> "AttributeError", old |-> NoneObj, new |-> NoneObj]
         ELSE NewValue(self, dst_obj, template_obj, query_manager, old_value)

LogEntry(level, msg, args, obj) == [level |-> level, msg |-> msg, args |-> args, obj |-> obj]

\* the in-memory object as the logger's "object"
ObjRef(dst_obj) == <<dst_obj.dst, dst_obj.device, dst_obj.vals.name>>

\* A variant of update whose comparison is inverted: the field is assigned when the
\* old and new values are equal.
update_Inverted(self, dst_obj, template_obj, db, lg) ==
    IF self.default_value = None /\ template_obj = NoneObj
    THEN [exc |-> "ValueError", obj |-> dst_obj, log |-> lg]
    ELSE LET v == get_values(self, dst_obj, template_obj, db)
         IN IF v.exc # "" THEN [exc |-> v.exc, obj |-> dst_obj, log |-> lg]
            ELSE IF v.old = v.new
            THEN [exc |-> "",
                  obj |-> [dst_obj EXCEPT !.vals[self.name] = v.new],
                  log |-> IF ~dst_obj.adding
                          THEN Append(lg, LogEntry("info", "Updated", <<self.name>>,
                                                   ObjRef(dst_obj)))
                          ELSE lg]
            ELSE [exc |-> "", obj |-> dst_obj, log |-> lg]

\* A variant of update without the check of lines 100-101.
update_NoCheck(self, dst_obj, template_obj, db, lg) ==
    LET v == get_values(self, dst_obj, template_obj, db)
    IN IF v.exc # "" THEN [exc |-> v.exc, obj |-> dst_obj, log |-> lg]
       ELSE IF v.old # v.new
       THEN [exc |-> "",
             obj |-> [dst_obj EXCEPT !.vals[self.name] = v.new],
             log |-> IF ~dst_obj.adding
                     THEN Append(lg, LogEntry("info", "Updated", <<self.name>>,
                                              ObjRef(dst_obj)))
                     ELSE lg]
       ELSE [exc |-> "", obj |-> dst_obj, log |-> lg]

\* FieldUpdate.update(job, dst_obj, template_obj): the object and the log afterwards
update(self, dst_obj, template_obj, db, lg) ==
    IF self.default_value = None /\ template_obj = NoneObj
    THEN [exc |-> "ValueError", obj |-> dst_obj, log |-> lg]
    ELSE LET v == get_values(self, dst_obj, template_obj, db)
         IN IF v.exc # "" THEN [exc |-> v.exc, obj |-> dst_obj, log |-> lg]
            ELSE IF v.old # v.new
            THEN [exc |-> "",
                  obj |-> [dst_obj EXCEPT !.vals[self.name] = v.new],
                  log |-> IF ~dst_obj.adding
                          THEN Append(lg, LogEntry("info", "Updated", <<self.name>>,
                                                   ObjRef(dst_obj)))
                          ELSE lg]
            ELSE [exc |-> "", obj |-> dst_obj, log |-> lg]

\* TemplateUpdate.update, lines 164-165: the fields are updated in list order; an
\* exception ends the loop
RECURSIVE UpdateFields(_, _, _, _, _, _)
UpdateFields(fields, i, dst_obj, template_obj, db, lg) ==
    IF i > Len(fields) THEN [exc |-> "", obj |-> dst_obj, log |-> lg]
    ELSE LET Rest(r) == IF r.exc # "" THEN r
                        ELSE UpdateFields(fields, i + 1, r.obj, template_obj, db, r.log)
         \* the result of the call is a value before the loop goes on
         IN CHOOSE x \in {Rest(r) : r \in {update(fields[i], dst_obj, template_obj, db, lg)}} :
               TRUE

(***************************************************************************)
(* validated_save: the platform validates the object and stores it.  The   *)
(* model's validation refuses an object with a required field left unset   *)
(* or a field holding the Rejected value; it depends on the object alone.  *)
(***************************************************************************)
RequiredFields == {"name", "type", "status", "rear_port"}

Valid(dst_obj) ==
    /\ \A f \in DOMAIN dst_obj.vals : dst_obj.vals[f] # Rejected
    /\ \A f \in RequiredFields \cap DOMAIN dst_obj.vals :
          dst_obj.vals[f] # (IF f \in RelationFields THEN NoneObj ELSE Blank)

Row(dst_obj) == [device |-> dst_obj.device, dst |-> dst_obj.dst, vals |-> dst_obj.vals]

\* A variant of Saved that always inserts a row, also for an object read from the table.
Saved_Insert(db, dst_obj, stored) == db (+) SetToBag({Row(dst_obj)})

\* the table after dst_obj.validated_save() succeeded; `stored` is the row the
\* object was read from (unused for a new object)
Saved(db, dst_obj, stored) ==
    IF dst_obj.adding THEN db (+) SetToBag({Row(dst_obj)})
    ELSE (db (-) SetToBag({stored})) (+) SetToBag({Row(dst_obj)})

\* A variant of validated_save without the try/except: the ValidationError leaves update.
validated_save_NoTry(db, dst_obj, stored, lg) ==
    IF Valid(dst_obj)
    THEN [exc |-> "", comps |-> Saved(db, dst_obj, stored), log |-> lg]
    ELSE [exc |-> "ValidationError", comps |-> db, log |-> lg]

\* TemplateUpdate.update, lines 167-170: dst_obj.validated_save() inside try/except
\* ValidationError
validated_save(db, dst_obj, stored, lg) ==
    IF Valid(dst_obj)
    THEN [exc |-> "", comps |-> Saved(db, dst_obj, stored), log |-> lg]
    ELSE [exc |-> "", comps |-> db,
          log |-> Append(lg, LogEntry("info", "Validation failed", <<"ValidationError">>,
                                      ObjRef(dst_obj)))]

\* The class name logged by "Created %s"
ClassName(dst) ==
    CASE dst = "interfaces" -> "Interface"
      [] dst = "rear_ports" -> "RearPort"
      [] dst = "front_ports" -> "FrontPort"
      [] dst = "console_ports" -> "ConsolePort"
      [] dst = "console_server_ports" -> "ConsoleServerPort"
      [] dst = "power_ports" -> "PowerPort"
      [] dst = "power_outlets" -> "PowerOutlet"
      [] dst = "device_bays" -> "DeviceBay"

(***************************************************************************)
(* One iteration of the loop of TemplateUpdate.update (lines 154-170) for  *)
(* the template template_obj: the table and the log afterwards, and the    *)
(* exception that leaves update, if any.                                   *)
(***************************************************************************)
TemplateIteration(self, device, template_obj, db, lg) ==
    LET key == template_obj.vals[self.key_field]
        found == {r \in Rows(db, device, self.dst) : r.vals[self.key_field] = key}
        copies == IF found = {} THEN 0
                  ELSE CopiesIn(CHOOSE r \in found : TRUE, db)
    IN IF Cardinality(found) > 1 \/ copies > 1
       THEN [exc |-> "MultipleObjectsReturned", comps |-> db, log |-> lg]
       ELSE
         LET stored == IF found = {} THEN NoneObj ELSE CHOOSE r \in found : TRUE
             dst_obj == IF found = {}
                        THEN [device |-> device, dst |-> self.dst, adding |-> TRUE,
                              vals |-> NewObject(self.dst)]
                        ELSE [device |-> device, dst |-> self.dst, adding |-> FALSE,
                              vals |-> stored.vals]
             lg1 == IF found = {}
                    THEN Append(lg, LogEntry("info", "Created", <<ClassName(self.dst)>>,
                                             <<"Device", device>>))
                    ELSE lg
             Save(r) == IF r.exc # "" THEN [exc |-> r.exc, comps |-> db, log |-> r.log]
                        ELSE validated_save(db, r.obj, stored, r.log)
         \* the fields are updated, then the object is saved
         IN CHOOSE x \in {Save(r) : r \in {UpdateFields(self.fields, 1, dst_obj, template_obj,
                                                         db, lg1)}} : TRUE

(***************************************************************************)
(* The templates and the components the data store starts with.            *)
(***************************************************************************)
Template(device_type, src, vals) == [device_type |-> device_type, src |-> src, vals |-> vals]

\* The templates of the two device types.  if_label and rp_label are the labels
\* of an interface template and of a rear port template of device type 1.
TemplatesWith(if_label, rp_label) ==
    { Template(1, "interface_templates",
               [name |-> "eth1", label |-> if_label, type |-> "other", mgmt_only |-> "False"]),
      Template(1, "interface_templates",
               [name |-> "eth2", label |-> "L1", type |-> "other", mgmt_only |-> "True"]),
      Template(1, "rear_port_templates",
               [name |-> "R1", label |-> rp_label, type |-> "other"]),
      Template(1, "front_port_templates",
               [name |-> "F1", label |-> "L1", type |-> "other", rear_port_template |-> <<"R1">>]),
      Template(1, "power_port_templates",
               [name |-> "P1", label |-> "L1", type |-> "iec", maximum_draw |-> "20",
                allocated_draw |-> "10"]),
      Template(1, "power_outlet_templates",
               [name |-> "O1", label |-> "L1", type |-> "iec", power_port_template |-> <<"P1">>,
                feed_leg |-> "A"]),
      Template(2, "interface_templates",
               [name |-> "eth1", label |-> "L2", type |-> "other", mgmt_only |-> "False"]),
      Template(2, "rear_port_templates",
               [name |-> "R1", label |-> "L2", type |-> "other"]),
      Template(2, "device_bay_templates",
               [name |-> "B1", label |-> "L2"]) }

TemplateLabels == {"L1", Rejected}

ComponentRow(device, dst, vals) == [device |-> device, dst |-> dst, vals |-> vals]

\* Components that exist before any job ran: device 1 has an interface that
\* differs from its template, an interface no template names, and a front port
\* on a rear port no template names; device 2 has a rear port named like a
\* template of device type 1; devices 1 and 3 have a power outlet fed by a power
\* port.
Preexisting ==
    SetToBag({
      ComponentRow(1, "interfaces",
                   [name |-> "eth1", label |-> "L0", type |-> "other", mgmt_only |-> "False",
                    status |-> <<"Planned">>]),
      ComponentRow(1, "interfaces",
                   [name |-> "eth9", label |-> "L0", type |-> "other", mgmt_only |-> "False",
                    status |-> <<"Active">>]),
      ComponentRow(1, "rear_ports", [name |-> "R0", label |-> "L0", type |-> "other"]),
      ComponentRow(1, "front_ports",
                   [name |-> "F1", label |-> "L0", type |-> "other",
                    rear_port |-> <<"rear_ports", 1, "R0">>]),
      ComponentRow(2, "rear_ports", [name |-> "R1", label |-> "L0", type |-> "other"]) }
      \cup { ComponentRow(d, "power_ports",
                          [name |-> "P1", label |-> "L1", type |-> "iec", maximum_draw |-> "20",
                           allocated_draw |-> "10"]) : d \in {1, 3} }
      \cup { ComponentRow(d, "power_outlets",
                          [name |-> "O1", label |-> "L0", type |-> "iec",
                           power_port |-> <<"power_ports", d, "P1">>, feed_leg |-> "A"])
              : d \in {1, 3} })

\* Components that exist before any job ran, another case: device 1 has a power
\* outlet that no power port feeds (the relationship is optional).
OutletWithoutPort ==
    SetToBag({
      ComponentRow(1, "power_ports",
                   [name |-> "P1", label |-> "L1", type |-> "iec", maximum_draw |-> "20",
                    allocated_draw |-> "10"]),
      ComponentRow(1, "power_outlets",
                   [name |-> "O1", label |-> "L1", type |-> "iec", power_port |-> NoneObj,
                    feed_leg |-> "A"]) })

\* the job's devices argument (a queryset, in the order of the devices' keys): no
\* device, one device, or device 1 and another device
DeviceLists ==
    {<<>>} \cup {<<d>> : d \in Devices} \cup {<<1, d>> : d \in Devices \ {1}}

(***************************************************************************)
(* State of the component update job.                                      *)
(***************************************************************************)
VARIABLES
    templates,        \* the templates of all device types
    comps,            \* the components of all devices, a bag of rows
    pc,               \* "idle", "running", "done", or "raised" (an exception left the job)
    job_device_type,  \* the device_type argument of the running job
    job_devices,      \* the devices argument of the running job
    queue,            \* the devices the loop of update_device_type has still to visit
    device,           \* the device being updated, 0 before the first
    tu,               \* index in TEMPLATE_UPDATES of the update being applied, 0 before the first
    todo,             \* templates of src.all() the loop of TemplateUpdate.update has still to visit
    log,              \* what the job logged, in order
    visited,          \* <<device, index of TEMPLATE_UPDATES>> of the update calls made, in order
    selected,         \* the devices the job iterates over, as fixed when it started
    runs,             \* number of jobs started
    edits,            \* number of changes made to the templates
    unchanged,        \* TRUE when no template was changed since the last job started
    rerun             \* TRUE when the job repeats the job before it: same device type, same
                      \* devices, templates unchanged in between

cvars == <<templates, comps, pc, job_device_type, job_devices, queue, device, tu, todo, log, visited,
           selected, runs, edits, unchanged, rerun>>

MaxRuns == 2
MaxEdits == 1

\* (a sorted list of) the devices of a device type: device_type.devices.all()
RECURSIVE SortedSeq(_)
SortedSeq(S) ==
    IF S = {} THEN <<>>
    ELSE LET m == CHOOSE x \in S : \A y \in S : x <= y
         IN <<m>> \o SortedSeq(S \ {m})

\* A variant of DevicesOfType that ignores the device type.
DevicesOfType_All(device_type) == SortedSeq(Devices)

\* A variant of DevicesOfType that returns one device of the type only.
DevicesOfType_First(device_type) ==
    <<CHOOSE d \in Devices : DeviceTypeOf(d) = device_type>>

DevicesOfType(device_type) == SortedSeq({d \in Devices : DeviceTypeOf(d) = device_type})

\* getattr(device_type, self.src).all()
SrcAll(device_type, i) ==
    {t \in templates : t.device_type = device_type /\ t.src = TEMPLATE_UPDATES[i].src}

CompInit ==
    /\ \E a \in TemplateLabels, b \in TemplateLabels : templates = TemplatesWith(a, b)
    /\ comps \in {EmptyBag, Preexisting, OutletWithoutPort}
    /\ pc = "idle"
    /\ job_device_type = 0
    /\ job_devices = <<>>
    /\ queue = <<>>
    /\ device = 0
    /\ tu = 0
    /\ todo = {}
    /\ log = <<>>
    /\ visited = <<>>
    /\ selected = <<>>
    /\ runs = 0
    /\ edits = 0
    /\ unchanged = TRUE
    /\ rerun = FALSE

\* UpdateDeviceFromTemplatesMixin.update_device_type, lines 254-256
update_device_type(device_type, devices) ==
    /\ pc # "running"
    /\ runs < MaxRuns
    /\ LET devs == IF devices = <<>> THEN DevicesOfType(device_type) ELSE devices
       IN /\ queue' = devs
          /\ selected' = devs
          /\ rerun' = (/\ pc \in {"done", "raised"}
                       /\ job_device_type = device_type
                       /\ selected = devs
                       /\ unchanged)
    /\ job_device_type' = device_type
    /\ job_devices' = devices
    /\ pc' = "running"
    /\ device' = 0
    /\ tu' = 0
    /\ todo' = {}
    /\ visited' = <<>>
    /\ runs' = runs + 1
    /\ unchanged' = TRUE
    /\ log' = <<LogEntry("info", "Updating devices from", <<>>, <<"DeviceType", device_type>>)>>
    /\ UNCHANGED <<templates, comps, edits>>

\* DeviceComponentUpdate.run(device_type, devices)
Run(device_type, devices) == update_device_type(device_type, devices)

\* DeviceComponentUpdateButton.receive_job_button(obj): devices takes its default
ReceiveJobButton(obj) == update_device_type(obj, <<>>)

\* update_device_type, lines 257-259: the next device, and the first update call
ForDevice ==
    /\ pc = "running"
    /\ tu = 0 \/ (tu = NumTemplateUpdates /\ todo = {})
    /\ queue # <<>>
    /\ device' = Head(queue)
    /\ queue' = Tail(queue)
    /\ log' = Append(log, LogEntry("info", "Updating", <<>>, <<"Device", Head(queue)>>))
    /\ tu' = 1
    /\ todo' = SrcAll(job_device_type, 1)
    /\ visited' = Append(visited, <<Head(queue), 1>>)
    /\ UNCHANGED <<templates, comps, pc, job_device_type, job_devices, selected, runs, edits, unchanged, rerun>>

\* TemplateUpdate.update, lines 154-170: one template of src.all()
ForTemplate(template_obj) ==
    /\ pc = "running"
    /\ tu >= 1
    /\ template_obj \in todo
    /\ \E r \in {TemplateIteration(TEMPLATE_UPDATES[tu], device, template_obj, comps, log)} :
          /\ comps' = r.comps
          /\ log' = r.log
          /\ IF r.exc # ""
             THEN pc' = "raised" /\ todo' = todo
             ELSE pc' = pc /\ todo' = todo \ {template_obj}
    /\ UNCHANGED <<templates, job_device_type, job_devices, queue, device, tu, visited, selected,
                   runs, edits, unchanged, rerun>>

\* update_device_type, lines 259-260: update returned, the next entry of TEMPLATE_UPDATES
NextTemplateUpdate ==
    /\ pc = "running"
    /\ tu >= 1 /\ tu < NumTemplateUpdates
    /\ todo = {}
    /\ tu' = tu + 1
    /\ todo' = SrcAll(job_device_type, tu + 1)
    /\ visited' = Append(visited, <<device, tu + 1>>)
    /\ UNCHANGED <<templates, comps, pc, job_device_type, job_devices, queue, device, log,
                   selected, runs,
                   edits, unchanged, rerun>>

\* update_device_type returns: no device is left
Finish ==
    /\ pc = "running"
    /\ tu = 0 \/ (tu = NumTemplateUpdates /\ todo = {})
    /\ queue = <<>>
    /\ pc' = "done"
    /\ UNCHANGED <<templates, comps, job_device_type, job_devices, queue, device, tu, todo, log,
                   visited,
                   selected, runs, edits, unchanged, rerun>>

\* After a job a user changes a template of a device type: the label of its
\* interface template eth1 (the templates belong to the platform, not to the job).
EditTemplate(device_type, label) ==
    /\ pc \in {"done", "raised"}
    /\ edits < MaxEdits
    /\ \E t \in templates :
          /\ t.device_type = device_type
          /\ t.src = "interface_templates"
          /\ t.vals.name = "eth1"
          /\ t.vals.label # label
          /\ templates' = (templates \ {t}) \cup {[t EXCEPT !.vals.label = label]}
    /\ edits' = edits + 1
    /\ unchanged' = FALSE
    /\ UNCHANGED <<comps, pc, job_device_type, job_devices, queue, device, tu, todo, log, visited,
                   selected,
                   runs, rerun>>

CompNext ==
    \/ \E dt \in DeviceTypes, devs \in DeviceLists : Run(dt, devs)
    \/ \E dt \in DeviceTypes : ReceiveJobButton(dt)
    \/ ForDevice
    \/ \E t \in templates : ForTemplate(t)
    \/ NextTemplateUpdate
    \/ Finish
    \/ \E dt \in DeviceTypes : EditTemplate(dt, "L3")

(***************************************************************************)
(* The device name update job (jobs/device_names.py).                      *)
(*                                                                         *)
(* A name is a sequence of characters.  Names are single lines.            *)
(***************************************************************************)
Digits == {"0", "1", "2", "3", "4", "5", "6", "7", "8", "9"}

Locations == {1, 2}
Roles == {1, 2}
\* devices 1 and 2 are at location 1, device 3 is at location 2
LocationOf(d) == IF d = 3 THEN 2 ELSE 1
\* devices 1 and 2 have role 1, device 3 has role 2
RoleOf(d) == IF d = 3 THEN 2 ELSE 1
LocationName(l) == IF l = 1 THEN <<"S", "1">> ELSE <<"S", "2">>
\* the name of role 2 ends with a digit
RoleName(r) == IF r = 1 THEN <<"S", "W">> ELSE <<"R", "2">>

\* the names a device may have before a job runs: without digits, ending in one
\* digit (two of them, with the same digit), ending in a run of digits, with a
\* digit that is not at the end
InitialNames ==
    { <<"d", "e", "v">>, <<"d", "e", "v", " ", "1">>, <<"x", "1">>, <<"d", "1", "2">>,
      <<"4", "x">> }

\* A variant of Search that matches one trailing digit only: the pattern (\d)$.
Search_OneDigit(name) ==
    IF name # <<>> /\ name[Len(name)] \in Digits THEN <<name[Len(name)]>> ELSE <<>>

\* re.search(r"(\d+)$", name).group(1), or <<>> when there is no match: the match
\* starts at the leftmost position from which only digits follow up to the end
Search(name) ==
    LET starts == {i \in 1..Len(name) : \A j \in i..Len(name) : name[j] \in Digits}
    IN IF starts = {} THEN <<>>
       ELSE SubSeq(name, CHOOSE i \in starts : \A k \in starts : i <= k, Len(name))

\* A variant of update_device_name without the early return of lines 21-23.
update_device_name_NoReturn(dev, name, lg) ==
    LET device_index == Search(name)
        new_name == LocationName(LocationOf(dev)) \o <<"-">> \o RoleName(RoleOf(dev))
                    \o device_index
    IN IF name # new_name
       THEN [name |-> new_name, saved |-> TRUE,
             log |-> Append(lg, LogEntry("info", "Updating device", <<name, new_name>>, <<>>))]
       ELSE [name |-> name, saved |-> FALSE, log |-> lg]

\* UpdateDeviceNamesMixin.update_device_name(device) on the device dev, for the device's current name:
\* the name afterwards, whether device.save() was called, and the log afterwards
update_device_name(dev, name, lg) ==
    LET device_index == Search(name)
        new_name == LocationName(LocationOf(dev)) \o <<"-">> \o RoleName(RoleOf(dev))
                    \o device_index
    IN IF device_index = <<>>
       THEN [name |-> name, saved |-> FALSE,
             log |-> Append(lg, LogEntry("warning", "does not end with a digit. Skipping.",
                                         <<name>>, <<>>))]
       ELSE IF name # new_name
       THEN [name |-> new_name, saved |-> TRUE,
             log |-> Append(lg, LogEntry("info", "Updating device", <<name, new_name>>, <<>>))]
       ELSE [name |-> name, saved |-> FALSE, log |-> lg]

\* the devices argument of the job: None, or a list of devices
DevicesArg(is_none, list) == [is_none |-> is_none, list |-> list]

DevicesArgs == {DevicesArg(TRUE, <<>>)} \cup {DevicesArg(FALSE, l) : l \in DeviceLists}

\* A variant of Selection that filters the given devices too.
Selection_AlwaysFilter(location, device_type, devices) ==
    LET matching == {d \in Devices :
                        /\ location # 0 => LocationOf(d) = location
                        /\ device_type # 0 => DeviceTypeOf(d) = device_type}
    IN IF devices.is_none \/ Len(devices.list) = 0
       THEN SortedSeq(matching)
       ELSE SelectSeq(devices.list, LAMBDA d : d \in matching)

\* UpdateDeviceNamesMixin.update, lines 42-47: the devices the loop iterates over.
\* location and device_type are 0 for None.
Selection(location, device_type, devices) ==
    IF devices.is_none \/ Len(devices.list) = 0
    THEN SortedSeq({d \in Devices :
                       /\ location # 0 => LocationOf(d) = location
                       /\ device_type # 0 => DeviceTypeOf(d) = device_type})
    ELSE devices.list

(***************************************************************************)
(* Job buttons: the object a button is clicked on is a model instance,     *)
(* <<model, key>>.                                                         *)
(***************************************************************************)
ButtonObjects ==
    {<<"Device", d>> : d \in Devices} \cup {<<"Location", l>> : l \in Locations}
        \cup {<<"DeviceType", t>> : t \in DeviceTypes}

isinstance(obj, model_type) == obj # NoneObj /\ obj[1] = model_type

\* a method call a button receiver makes: the method's name and the keyword
\* arguments; obj is the object the button was clicked on
Call(method, kwargs, obj) == [method |-> method, kwargs |-> kwargs, obj |-> obj]

NoCall == Call("", <<>>, NoneObj)

\* UpdateDeviceNamesButton.receive_job_button, lines 67-73: the keyword arguments
NamesButtonKwargs(obj) ==
    IF isinstance(obj, "Device") THEN [devices |-> <<obj>>]
    ELSE IF isinstance(obj, "Location") THEN [location |-> obj]
    ELSE IF isinstance(obj, "DeviceType") THEN [device_type |-> obj]
    ELSE <<>>

\* the parameters of UpdateDeviceNamesMixin.update; none has a default
UpdateParameters == {"location", "device_type", "devices"}

VARIABLES
    names,        \* the name of every device, as stored
    n_pc,         \* "idle", "running", "done", or "raised" (an exception left the job)
    n_args,       \* the arguments of the running job: location, device_type, devices
    n_queue,      \* the devices the loop of update has still to visit
    n_log,        \* what the job logged, in order
    n_saved,      \* the devices device.save() was called for by the job, in order
    n_processed,  \* the devices update_device_name was called for by the job, in order
    n_before,     \* the names of the devices when the job started
    n_applied,    \* the devices update_device_name was called for by any job so far
    n_runs,       \* number of jobs started
    n_call        \* the method call the button receiver made, NoCall for a job that was run

nvars == <<names, n_pc, n_args, n_queue, n_log, n_saved, n_processed, n_before, n_applied,
           n_runs, n_call>>

MaxNameRuns == 2

NamesInit ==
    /\ names \in {f \in [Devices -> InitialNames] :
                     \A d, e \in Devices : d # e => f[d] # f[e]}
    /\ n_pc = "idle"
    /\ n_args = [location |-> 0, device_type |-> 0, devices |-> DevicesArg(TRUE, <<>>)]
    /\ n_queue = <<>>
    /\ n_log = <<>>
    /\ n_saved = <<>>
    /\ n_processed = <<>>
    /\ n_before = names
    /\ n_applied = {}
    /\ n_runs = 0
    /\ n_call = NoCall

\* UpdateDeviceNamesMixin.update, lines 40-47
NamesUpdate(location, device_type, devices) ==
    /\ n_pc # "running"
    /\ n_runs < MaxNameRuns
    /\ n_pc' = "running"
    /\ n_args' = [location |-> location, device_type |-> device_type, devices |-> devices]
    /\ n_queue' = Selection(location, device_type, devices)
    /\ n_log' = <<LogEntry("info", "Starting device name update process...", <<>>, <<>>)>>
    /\ n_saved' = <<>>
    /\ n_processed' = <<>>
    /\ n_before' = names
    /\ n_runs' = n_runs + 1
    /\ UNCHANGED <<names, n_applied>>

\* UpdateDeviceNames.run(log_level, location, device_type, devices)
NamesRun(location, device_type, devices) ==
    /\ NamesUpdate(location, device_type, devices)
    /\ n_call' = NoCall

\* UpdateDeviceNamesButton.receive_job_button(obj): self.update(**kwargs).  The call
\* binds the keyword arguments to the parameters of update; a parameter without
\* an argument is a TypeError.
NamesReceiveJobButton(obj) ==
    /\ n_pc # "running"
    /\ n_runs < MaxNameRuns
    /\ LET kwargs == NamesButtonKwargs(obj)
       IN /\ n_call' = Call("update", kwargs, obj)
          /\ IF UpdateParameters \subseteq DOMAIN kwargs
             THEN NamesUpdate(kwargs.location[2], kwargs.device_type[2],
                              DevicesArg(FALSE, <<kwargs.devices[1][2]>>))
             ELSE /\ n_pc' = "raised"
                  /\ n_runs' = n_runs + 1
                  /\ n_log' = <<>>
                  /\ n_saved' = <<>>
                  /\ n_processed' = <<>>
                  /\ n_queue' = <<>>
                  /\ n_before' = names
                  /\ UNCHANGED <<names, n_args, n_applied>>

\* A variant of NamesForDevice in which a device that was renamed is iterated over
\* again.
NamesForDevice_Requeue ==
    /\ n_pc = "running"
    /\ n_queue # <<>>
    /\ LET d == Head(n_queue)
           r == update_device_name(d, names[d], n_log)
       IN /\ names' = [names EXCEPT ![d] = r.name]
          /\ n_log' = r.log
          /\ n_saved' = IF r.saved THEN Append(n_saved, d) ELSE n_saved
          /\ n_processed' = Append(n_processed, d)
          /\ n_applied' = n_applied \cup {d}
          /\ n_queue' = IF r.saved THEN Append(Tail(n_queue), d) ELSE Tail(n_queue)
    /\ UNCHANGED <<n_pc, n_args, n_before, n_runs, n_call>>

\* UpdateDeviceNamesMixin.update, lines 49-50: update_device_name for the next device
NamesForDevice ==
    /\ n_pc = "running"
    /\ n_queue # <<>>
    /\ LET d == Head(n_queue)
           r == update_device_name(d, names[d], n_log)
       IN /\ names' = [names EXCEPT ![d] = r.name]
          /\ n_log' = r.log
          /\ n_saved' = IF r.saved THEN Append(n_saved, d) ELSE n_saved
          /\ n_processed' = Append(n_processed, d)
          /\ n_applied' = n_applied \cup {d}
    /\ n_queue' = Tail(n_queue)
    /\ UNCHANGED <<n_pc, n_args, n_before, n_runs, n_call>>

\* UpdateDeviceNamesMixin.update, line 51: the loop is over
NamesFinish ==
    /\ n_pc = "running"
    /\ n_queue = <<>>
    /\ n_pc' = "done"
    /\ n_log' = Append(n_log, LogEntry("info", "Device name update process completed.",
                                       <<>>, <<>>))
    /\ UNCHANGED <<names, n_args, n_queue, n_saved, n_processed, n_before, n_applied,
                   n_runs, n_call>>

NamesNext ==
    \/ \E l \in {0} \cup Locations, dt \in {0} \cup DeviceTypes, devs \in DevicesArgs :
          NamesRun(l, dt, devs)
    \/ \E obj \in ButtonObjects : NamesReceiveJobButton(obj)
    \/ NamesForDevice
    \/ NamesFinish

(***************************************************************************)
(* The port label update job (jobs/port_labels.py) and the helpers of      *)
(* jobs/util.py.  The job's device selection (UpdateMixin.update_objects,  *)
(* DeviceSelectJobMixin.run) is not part of jobs/base.py as given; it is   *)
(* modelled from the way the job and its tests call it.                    *)
(***************************************************************************)
\* A variant of filter_kwargs that leaves out the names whose type does not match.
filter_kwargs_OnlyMatching(obj, kwargs) ==
    [arg_name \in {a \in DOMAIN kwargs : isinstance(obj, kwargs[a])} |-> obj]

\* util.filter_kwargs(obj, **kwargs): kwargs maps argument names to model types
filter_kwargs(obj, kwargs) ==
    [arg_name \in DOMAIN kwargs |-> IF isinstance(obj, kwargs[arg_name]) THEN obj ELSE NoneObj]

\* the objects argument of filter_objects: None, a model instance, or a queryset
\* (kind "None", "Model", "QuerySet"); items are the devices it holds, in order
Objects(kind, items) == [kind |-> kind, items |-> items]

\* the value of a device's field that a constraint names
FieldOf(d, field_name) ==
    CASE field_name = "location" -> <<"Location", LocationOf(d)>>
      [] field_name = "device_type" -> <<"DeviceType", DeviceTypeOf(d)>>

\* A variant of filter_objects that takes None for all devices.
filter_objects_NoneAsAll(objects, kwargs) ==
    LET test(d) == \A f \in DOMAIN kwargs :
                       kwargs[f] # NoneObj => FieldOf(d, f) = kwargs[f]
        items == IF objects.kind = "None" THEN SortedSeq(Devices) ELSE objects.items
    IN [exc |-> "", items |-> SelectSeq(items, test), filtered |-> TRUE]

\* A variant of filter_objects that joins the constraints with | instead of &.
filter_objects_AnyConstraint(objects, kwargs) ==
    IF objects.kind = "None" THEN [exc |-> "ValueError", items |-> <<>>, filtered |-> FALSE]
    ELSE LET test(d) == \E f \in DOMAIN kwargs :
                            kwargs[f] # NoneObj /\ FieldOf(d, f) = kwargs[f]
         IN [exc |-> "", items |-> SelectSeq(objects.items, test), filtered |-> TRUE]

\* util.filter_objects(objects, **kwargs): kwargs maps field names to a model
\* instance or None.  A model instance is looked up by its key in the manager of
\* its class.  filtered tells whether objects.filter was called.
filter_objects(objects, kwargs) ==
    IF objects.kind = "None" THEN [exc |-> "ValueError", items |-> <<>>, filtered |-> FALSE]
    ELSE LET test(d) == \A f \in DOMAIN kwargs :
                            kwargs[f] # NoneObj => FieldOf(d, f) = kwargs[f]
         IN [exc |-> "", items |-> SelectSeq(objects.items, test), filtered |-> TRUE]

\* the ports of the devices: ports 1 and 2 are front ports of device 1, ports 3 and
\* 4 rear ports of device 1, port 5 is a rear port of device 2; device 3 has no
\* port.  A manager returns its ports in the order of their numbers.
PortIds == 1..5

Port(dev, kind, name) == [device |-> dev, kind |-> kind, name |-> name]

PortTable ==
    << Port(1, "front port", <<"A">>),
       Port(1, "front port", <<"F", "1">>),
       Port(1, "rear port", <<"R", "1", "2">>),
       Port(1, "rear port", <<"R", "x">>),
       Port(2, "rear port", <<"R", "1">>) >>

\* the labels a port may have before a job runs: none, the label the job gives
\* port 2 of device 1, a label that ends in other digits
InitialLabels == { <<>>, <<"D", "1", "-", "1">>, <<"o", "l", "d", "9">> }

\* the names of the devices while the port label job is looked at
PortDeviceNames ==
    [d \in Devices |-> CASE d = 1 -> <<"D", "1">> [] d = 2 -> <<"D", "2">> [] d = 3 -> <<"D", "3">>]

\* getattr(object, "front_ports").all(), getattr(object, "rear_ports").all()
PortsAll(dev, kind) ==
    SortedSeq({i \in PortIds : PortTable[i].device = dev /\ PortTable[i].kind = kind})

\* A variant of update_port without the skip of lines 27-29.
update_port_NoSkip(port, label, ok, device_name, lg) ==
    LET new_label == device_name \o <<"-">> \o Search(port.name)
    IN IF label # new_label
       THEN [exc |-> IF ok THEN "" ELSE "ValidationError",
             label |-> IF ok THEN new_label ELSE label, saved |-> ok,
             log |-> Append(lg, LogEntry("info", "Updating port",
                                         <<device_name \o <<":">> \o port.name, new_label>>, <<>>))]
       ELSE [exc |-> "", label |-> label, saved |-> FALSE, log |-> lg]

\* UpdatePortLabelsMixin.update_object, lines 25-37: the body of the loop for one
\* port with the stored label `label`; ok tells whether the platform's validation
\* accepts the port with its new label.  The label as stored afterwards, whether
\* the port was saved, the log afterwards and the exception that leaves, if any.
update_port(port, label, ok, device_name, lg) ==
    LET port_name == device_name \o <<":">> \o port.name
        port_index == Search(port.name)
        new_label == device_name \o <<"-">> \o port_index
    IN IF port_index = <<>>
       THEN [exc |-> "", label |-> label, saved |-> FALSE,
             log |-> Append(lg, LogEntry("warning", "does not end with digits. Skipping.",
                                         <<port.kind, port_name>>, <<>>))]
       ELSE IF label # new_label
       THEN [exc |-> IF ok THEN "" ELSE "ValidationError",
             label |-> IF ok THEN new_label ELSE label, saved |-> ok,
             log |-> Append(lg, LogEntry("info", "Updating port", <<port_name, new_label>>, <<>>))]
       ELSE [exc |-> "", label |-> label, saved |-> FALSE, log |-> lg]

VARIABLES
    labels,       \* the label of every port, as stored
    port_ok,      \* for every port, whether the platform's validation accepts it when saved
    p_pc,         \* "idle", "running", "done", or "raised" (an exception left the job)
    p_queue,      \* the devices the job has still to visit
    p_device,     \* the device being updated, 0 before the first
    p_stage,      \* 0 before the first device, 1 in the front ports, 2 in the rear ports
    p_todo,       \* the ports of ports.all() the loop has still to visit
    p_log,        \* what the job logged, in order
    p_saved,      \* the ports validated_save() stored, in order
    p_processed,  \* the ports the loop body ran for, in order
    p_selected,   \* the devices the job iterates over, as fixed when it started
    p_call,       \* the method call the button receiver made, NoCall for a job that was run
    p_runs        \* number of jobs started

pvars == <<labels, port_ok, p_pc, p_queue, p_device, p_stage, p_todo, p_log, p_saved,
           p_processed, p_selected, p_call, p_runs>>

MaxPortRuns == 2

PortsInit ==
    /\ \E l \in InitialLabels : labels = [i \in PortIds |-> IF i = 2 THEN l ELSE <<>>]
    /\ port_ok \in {f \in [PortIds -> BOOLEAN] : \A i \in PortIds \ {2, 3} : f[i]}
    /\ p_pc = "idle"
    /\ p_queue = <<>>
    /\ p_device = 0
    /\ p_stage = 0
    /\ p_todo = <<>>
    /\ p_log = <<>>
    /\ p_saved = <<>>
    /\ p_processed = <<>>
    /\ p_selected = <<>>
    /\ p_call = NoCall
    /\ p_runs = 0

\* UpdateMixin.update_objects(objects, location, device_type): the devices are
\* those of objects (all devices when objects is None) that filter_objects keeps
update_objects(objects, location, device_type) ==
    /\ p_pc # "running"
    /\ p_runs < MaxPortRuns
    /\ LET objs == IF objects.kind = "None" THEN Objects("QuerySet", SortedSeq(Devices))
                   ELSE objects
           r == filter_objects(objs, [location |-> location, device_type |-> device_type])
       IN /\ p_queue' = r.items
          /\ p_selected' = r.items
          /\ p_pc' = IF r.exc = "" THEN "running" ELSE "raised"
    /\ p_device' = 0
    /\ p_stage' = 0
    /\ p_todo' = <<>>
    /\ p_log' = <<>>
    /\ p_saved' = <<>>
    /\ p_processed' = <<>>
    /\ p_runs' = p_runs + 1
    /\ UNCHANGED <<labels, port_ok>>

\* DeviceSelectJobMixin.run(log_level, location, device_type, devices)
PortsRun(location, device_type, devices) ==
    /\ update_objects(devices, location, device_type)
    /\ p_call' = NoCall

\* the keyword types of UpdatePortLabelsButton.receive_job_button, line 53
ButtonTypes == [objects |-> "Device", location |-> "Location", device_type |-> "DeviceType"]

\* a keyword argument of the button as the objects argument of update_objects
AsObjects(v) == IF v = NoneObj THEN Objects("None", <<>>) ELSE Objects("Model", <<v[2]>>)

\* UpdatePortLabelsButton.receive_job_button(obj), lines 52-54; a parameter of
\* update_objects without an argument is a TypeError
PortsReceiveJobButton(obj) ==
    LET kwargs == filter_kwargs(obj, ButtonTypes)
    IN /\ p_call' = Call("update_objects", kwargs, obj)
       /\ IF DOMAIN ButtonTypes \subseteq DOMAIN kwargs
          THEN update_objects(AsObjects(kwargs.objects), kwargs.location, kwargs.device_type)
          ELSE /\ p_pc # "running"
               /\ p_runs < MaxPortRuns
               /\ p_pc' = "raised"
               /\ p_runs' = p_runs + 1
               /\ p_queue' = <<>> /\ p_selected' = <<>> /\ p_device' = 0 /\ p_stage' = 0
               /\ p_todo' = <<>> /\ p_log' = <<>> /\ p_saved' = <<>> /\ p_processed' = <<>>
               /\ UNCHANGED <<labels, port_ok>>

\* the loop over the selected objects: update_object for the next device, line 22,
\* the front ports first
PortsForDevice ==
    /\ p_pc = "running"
    /\ p_stage = 0 \/ (p_stage = 2 /\ p_todo = <<>>)
    /\ p_queue # <<>>
    /\ p_device' = Head(p_queue)
    /\ p_queue' = Tail(p_queue)
    /\ p_stage' = 1
    /\ p_todo' = PortsAll(Head(p_queue), "front port")
    /\ UNCHANGED <<labels, port_ok, p_pc, p_log, p_saved, p_processed, p_selected, p_call, p_runs>>

\* update_object, line 22: the front ports are done, the rear ports follow
PortsNextManager ==
    /\ p_pc = "running"
    /\ p_stage = 1 /\ p_todo = <<>>
    /\ p_stage' = 2
    /\ p_todo' = PortsAll(p_device, "rear port")
    /\ UNCHANGED <<labels, port_ok, p_pc, p_queue, p_device, p_log, p_saved, p_processed,
                   p_selected, p_call, p_runs>>

\* update_object, lines 24-37: the next port of the manager
PortsForPort ==
    /\ p_pc = "running"
    /\ p_todo # <<>>
    /\ LET i == Head(p_todo)
           r == update_port(PortTable[i], labels[i], port_ok[i], names[p_device], p_log)
       IN /\ labels' = [labels EXCEPT ![i] = r.label]
          /\ p_log' = r.log
          /\ p_saved' = IF r.saved THEN Append(p_saved, i) ELSE p_saved
          /\ p_processed' = Append(p_processed, i)
          /\ IF r.exc # ""
             THEN p_pc' = "raised" /\ p_todo' = p_todo
             ELSE p_pc' = p_pc /\ p_todo' = Tail(p_todo)
    /\ UNCHANGED <<port_ok, p_queue, p_device, p_stage, p_selected, p_call, p_runs>>

\* the loop over the selected objects is over
PortsFinish ==
    /\ p_pc = "running"
    /\ p_stage = 0 \/ (p_stage = 2 /\ p_todo = <<>>)
    /\ p_queue = <<>>
    /\ p_pc' = "done"
    /\ UNCHANGED <<labels, port_ok, p_queue, p_device, p_stage, p_todo, p_log, p_saved,
                   p_processed, p_selected, p_call, p_runs>>

\* the devices argument of the job: None or a queryset
PortDevicesArgs ==
    {Objects("None", <<>>)} \cup {Objects("QuerySet", l) : l \in DeviceLists}

PortsNext ==
    \/ \E l \in {NoneObj} \cup {<<"Location", x>> : x \in Locations},
          dt \in {NoneObj} \cup {<<"DeviceType", x>> : x \in DeviceTypes},
          devs \in PortDevicesArgs : PortsRun(l, dt, devs)
    \/ \E obj \in ButtonObjects : PortsReceiveJobButton(obj)
    \/ PortsForDevice
    \/ PortsNextManager
    \/ PortsForPort
    \/ PortsFinish

\* the port label job's variables while another job is looked at
PortsIdle ==
    /\ labels = [i \in PortIds |-> <<>>]
    /\ port_ok = [i \in PortIds |-> TRUE]
    /\ p_pc = "idle"
    /\ p_queue = <<>>
    /\ p_device = 0
    /\ p_stage = 0
    /\ p_todo = <<>>
    /\ p_log = <<>>
    /\ p_saved = <<>>
    /\ p_processed = <<>>
    /\ p_selected = <<>>
    /\ p_call = NoCall
    /\ p_runs = 0

(***************************************************************************)
(* FieldUpdate.get_values and FieldUpdate.update called on their own, as   *)
(* the unit tests call them: for a descriptor, a destination object and a  *)
(* template object.                                                        *)
(***************************************************************************)
\* the descriptors of TEMPLATE_UPDATES and of the tests, by kind: a plain field
\* without and with default, relationship fields with a default, relationship
\* fields without default (with and without template_name, optional or not)
FieldUpdates ==
    { PostInit("label"),
      FieldUpdate("label", None, "Ldef", None, None),
      FieldUpdate("status", None, "Active", "name", "Status.objects"),
      FieldUpdate("rear_port", None, "R1", "name", "device.rear_ports"),
      FieldUpdate("rear_port", "rear_port_template", None, "name", "device.rear_ports"),
      FieldUpdate("rear_port", None, None, "name", "device.rear_ports"),
      FieldUpdate("power_port", "power_port_template", None, "name", "device.power_ports") }

\* destination objects: None, or an object of device 1, saved or not
DstObjects ==
    {NoneObj} \cup
    { [device |-> 1, dst |-> "front_ports", adding |-> a,
       vals |-> [name |-> "X1", label |-> l, status |-> st, rear_port |-> rp, power_port |-> pp]] :
        a \in BOOLEAN, l \in {"L0", "L1"}, st \in {NoneObj, <<"Planned">>},
        rp \in {NoneObj, <<"rear_ports", 1, "R0">>},
        pp \in {NoneObj, <<"power_ports", 1, "P1">>} }

\* template objects: None, or a template whose rear port template names a rear
\* port the device has or has not, and whose power port template is set or not
TemplateObjects ==
    {NoneObj} \cup
    { Template(1, "front_port_templates",
               [name |-> "X1", label |-> "L1", rear_port_template |-> rpt, rear_port |-> <<"R1">>,
                power_port_template |-> ppt]) :
        rpt \in {<<"R1">>, <<"R9">>}, ppt \in {NoneObj, <<"P1">>} }

\* the components of device 1 the query managers hold
FieldDb ==
    SetToBag({ ComponentRow(1, "rear_ports", [name |-> "R0", label |-> "L0", type |-> "other"]),
               ComponentRow(1, "rear_ports", [name |-> "R1", label |-> "L0", type |-> "other"]),
               ComponentRow(1, "power_ports", [name |-> "P1", label |-> "L0", type |-> "iec"]) })

NoValues == [exc |-> "", old |-> NoneObj, new |-> NoneObj]

NoResult == [exc |-> "", obj |-> NoneObj, log |-> <<>>]

VARIABLES
    f_self,     \* the FieldUpdate
    f_dst,      \* the destination object before the call
    f_tmpl,     \* the template object
    f_pc,       \* "input", "values" after get_values, "updated" after update
    f_values,   \* what get_values returned (or raised)
    f_result    \* what update left: the destination object and the log, or the exception

fvars == <<f_self, f_dst, f_tmpl, f_pc, f_values, f_result>>

FieldInit ==
    /\ f_self \in FieldUpdates
    /\ f_dst \in DstObjects
    /\ f_tmpl \in TemplateObjects
    /\ f_pc = "input"
    /\ f_values = NoValues
    /\ f_result = NoResult

\* field_update.get_values(dst_obj, template_obj)
FieldGetValues ==
    /\ f_pc = "input"
    /\ f_values' = get_values(f_self, f_dst, f_tmpl, FieldDb)
    /\ f_pc' = "values"
    /\ UNCHANGED <<f_self, f_dst, f_tmpl, f_result>>

\* field_update.update(job, dst_obj, template_obj), the job's log being empty
FieldUpdateCall ==
    /\ f_pc = "input"
    /\ f_result' = update(f_self, f_dst, f_tmpl, FieldDb, <<>>)
    /\ f_pc' = "updated"
    /\ UNCHANGED <<f_self, f_dst, f_tmpl, f_values>>

FieldNext == FieldGetValues \/ FieldUpdateCall

\* the variables of the calls of FieldUpdate while a job is looked at
FieldIdle ==
    /\ f_self = PostInit("label")
    /\ f_dst = NoneObj
    /\ f_tmpl = NoneObj
    /\ f_pc = "input"
    /\ f_values = NoValues
    /\ f_result = NoResult

(***************************************************************************)
(* util.filter_objects called on its own, as its unit tests call it.       *)
(***************************************************************************)
\* the objects argument: None, a device, or a queryset of devices
ObjectsArgs ==
    {Objects("None", <<>>)} \cup {Objects("Model", <<d>>) : d \in Devices}
        \cup {Objects("QuerySet", l) : l \in DeviceLists \cup {SortedSeq(Devices)}}

\* the keyword arguments: none, location, device_type or both, each None or a
\* model instance
ConstraintArgs ==
    LET locs == {NoneObj} \cup {<<"Location", l>> : l \in Locations}
        types == {NoneObj} \cup {<<"DeviceType", t>> : t \in DeviceTypes}
    IN {<<>>} \cup {[location |-> l] : l \in locs} \cup {[device_type |-> t] : t \in types}
           \cup {[location |-> l, device_type |-> t] : l \in locs, t \in types}

NoFiltered == [exc |-> "", items |-> <<>>, filtered |-> FALSE]

VARIABLES
    u_objects,  \* the objects argument
    u_kwargs,   \* the keyword arguments
    u_pc,       \* "input", "called" after the call
    u_result    \* what filter_objects returned (or raised)

uvars == <<u_objects, u_kwargs, u_pc, u_result>>

UtilInit ==
    /\ u_objects \in ObjectsArgs
    /\ u_kwargs \in ConstraintArgs
    /\ u_pc = "input"
    /\ u_result = NoFiltered

\* filter_objects(objects, **kwargs)
FilterObjectsCall ==
    /\ u_pc = "input"
    /\ u_result' = filter_objects(u_objects, u_kwargs)
    /\ u_pc' = "called"
    /\ UNCHANGED <<u_objects, u_kwargs>>

UtilNext == FilterObjectsCall

\* the variables of the call of filter_objects while a job is looked at
UtilIdle ==
    /\ u_objects = Objects("None", <<>>)
    /\ u_kwargs = <<>>
    /\ u_pc = "input"
    /\ u_result = NoFiltered

\* the name job's variables while the component update job is looked at
NamesIdle ==
    /\ names = PortDeviceNames
    /\ n_pc = "idle"
    /\ n_args = [location |-> 0, device_type |-> 0, devices |-> DevicesArg(TRUE, <<>>)]
    /\ n_queue = <<>>
    /\ n_log = <<>>
    /\ n_saved = <<>>
    /\ n_processed = <<>>
    /\ n_before = names
    /\ n_applied = {}
    /\ n_runs = 0
    /\ n_call = NoCall

\* the component update job's variables while the name job is looked at
CompIdle ==
    /\ templates = TemplatesWith("L1", "L1")
    /\ comps = EmptyBag
    /\ pc = "idle"
    /\ job_device_type = 0
    /\ job_devices = <<>>
    /\ queue = <<>>
    /\ device = 0
    /\ tu = 0
    /\ todo = {}
    /\ log = <<>>
    /\ visited = <<>>
    /\ selected = <<>>
    /\ runs = 0
    /\ edits = 0
    /\ unchanged = TRUE
    /\ rerun = FALSE

vars == <<cvars, nvars, pvars, fvars, uvars>>

\* The component update job
Init == CompInit /\ NamesIdle /\ PortsIdle /\ FieldIdle /\ UtilIdle

Next == CompNext /\ UNCHANGED <<nvars, pvars, fvars, uvars>>

Spec == Init /\ [][Next]_vars

\* The device name update job
NamesSpecInit == NamesInit /\ CompIdle /\ PortsIdle /\ FieldIdle /\ UtilIdle

NamesSpecNext == NamesNext /\ UNCHANGED <<cvars, pvars, fvars, uvars>>

NamesSpec == NamesSpecInit /\ [][NamesSpecNext]_vars

\* The port label update job; the devices keep their names
PortsSpecInit == PortsInit /\ CompIdle /\ NamesIdle /\ FieldIdle /\ UtilIdle

PortsSpecNext == PortsNext /\ UNCHANGED <<cvars, nvars, fvars, uvars>>

PortsSpec == PortsSpecInit /\ [][PortsSpecNext]_vars

\* The calls of FieldUpdate.get_values and FieldUpdate.update
FieldSpecInit == FieldInit /\ CompIdle /\ NamesIdle /\ PortsIdle /\ UtilIdle

FieldSpecNext == FieldNext /\ UNCHANGED <<cvars, nvars, pvars, uvars>>

FieldSpec == FieldSpecInit /\ [][FieldSpecNext]_vars

\* The three jobs, one at a time: a job runs while the other jobs are idle.  Every
\* job runs synchronously: a job that is running takes its next step.
JobsInit ==
    \/ CompInit /\ NamesIdle /\ PortsIdle /\ FieldIdle /\ UtilIdle
    \/ NamesInit /\ CompIdle /\ PortsIdle /\ FieldIdle /\ UtilIdle
    \/ PortsInit /\ CompIdle /\ NamesIdle /\ FieldIdle /\ UtilIdle

CompStep == (ForDevice \/ (\E t \in templates : ForTemplate(t)) \/ NextTemplateUpdate \/ Finish)
                /\ UNCHANGED <<nvars, pvars, fvars, uvars>>

NamesStep == (NamesForDevice \/ NamesFinish) /\ UNCHANGED <<cvars, pvars, fvars, uvars>>

PortsStep == (PortsForDevice \/ PortsNextManager \/ PortsForPort \/ PortsFinish)
                 /\ UNCHANGED <<cvars, nvars, fvars, uvars>>

JobsNext ==
    \/ NamesIdle /\ PortsIdle /\ CompNext /\ UNCHANGED <<nvars, pvars, fvars, uvars>>
    \/ CompIdle /\ PortsIdle /\ NamesNext /\ UNCHANGED <<cvars, pvars, fvars, uvars>>
    \/ CompIdle /\ NamesIdle /\ PortsNext /\ UNCHANGED <<cvars, nvars, fvars, uvars>>

JobsSpec ==
    /\ JobsInit
    /\ [][JobsNext]_vars
    /\ WF_vars(CompStep)
    /\ WF_vars(NamesStep)
    /\ WF_vars(PortsStep)

\* The calls of filter_objects
UtilSpecInit == UtilInit /\ CompIdle /\ NamesIdle /\ PortsIdle /\ FieldIdle

UtilSpecNext == UtilNext /\ UNCHANGED <<cvars, nvars, pvars, fvars>>

UtilSpec == UtilSpecInit /\ [][UtilSpecNext]_vars

(***************************************************************************)
(* Properties of the component update job.                                 *)
(***************************************************************************)
\* the components of a device in one of its collections, as stored
ComponentsOf(d, dst) == {r \in BagToSet(comps) : r.device = d /\ r.dst = dst}

WithKey(d, dst, key) == {r \in ComponentsOf(d, dst) : r.vals.name = key}

\* the update being applied
Current == TEMPLATE_UPDATES[tu]

DstOf(src) ==
    (CHOOSE u \in {TEMPLATE_UPDATES[i] : i \in 1..NumTemplateUpdates} : u.src = src).dst

\* the component row agrees with the template in every listed field that has no
\* default: plain fields are equal, the rear port (power port) is the device's rear
\* port (power port) named like the template's rear port (power port) template
AgreesWith(row, t, d) ==
    \A f \in DOMAIN row.vals :
        CASE f = "status" -> TRUE
          [] f = "rear_port" -> row.vals[f] = <<"rear_ports", d, t.vals.rear_port_template[1]>>
          [] f = "power_port" -> row.vals[f] = <<"power_ports", d, t.vals.power_port_template[1]>>
          [] OTHER -> row.vals[f] = t.vals[f]

\* the platform accepts the values the template holds
Accepted(t) == \A f \in DOMAIN t.vals : t.vals[f] # Rejected

\* the component the template's relationship names exists on the device
RelatedExists(t, d) ==
    /\ "rear_port_template" \in DOMAIN t.vals =>
           WithKey(d, "rear_ports", t.vals.rear_port_template[1]) # {}
    /\ "power_port_template" \in DOMAIN t.vals =>
           WithKey(d, "power_ports", t.vals.power_port_template[1]) # {}

CountMsg(lg, msg) == Cardinality({i \in DOMAIN lg : lg[i].msg = msg})

ValidationFailedFor(d, dst, key) ==
    \E i \in DOMAIN log : log[i].msg = "Validation failed" /\ log[i].obj = <<dst, d, key>>

InUpdate == pc = "running" /\ tu >= 1

\* ------------------------------------------------------------------ C1
\* C1 as stated: after the call of TemplateUpdate.update for a device, the device
\* has a component with the key of every template of the source collection.
C1_AfterCallHasEveryKey ==
    (InUpdate /\ todo = {}) =>
        \A t \in SrcAll(job_device_type, tu) : WithKey(device, Current.dst, t.vals.name) # {}

C1_CreationStep ==
    \A t \in templates :
        (InUpdate /\ t \in todo /\ WithKey(device, Current.dst, t.vals.name) = {}
            /\ ForTemplate(t)) =>
        /\ Len(log') > Len(log)
        /\ log'[Len(log) + 1] =
               LogEntry("info", "Created", <<ClassName(Current.dst)>>, <<"Device", device>>)
        /\ CountMsg(log', "Created") = CountMsg(log, "Created") + 1
        /\ IF RelatedExists(t, device) /\ Accepted(t)
           THEN /\ pc' = "running"
                /\ \E row \in BagToSet(comps') :
                      /\ comps' = comps (+) SetToBag({row})
                      /\ row.device = device
                      /\ row.dst = Current.dst
                      /\ row.vals.name = t.vals.name
                      /\ AgreesWith(row, t, device)
                      /\ "status" \in DOMAIN row.vals => row.vals.status = <<"Active">>
           ELSE comps' = comps

C1_AfterCall ==
    (InUpdate /\ todo = {}) =>
        \A t \in SrcAll(job_device_type, tu) :
            \/ WithKey(device, Current.dst, t.vals.name) # {}
            \/ ValidationFailedFor(device, Current.dst, t.vals.name)

\* C1: a template whose key matches no component of the device makes update log
\* one "Created <model name>" entry with the device as its object and build a new
\* component attached to the device and populated from the template through every
\* listed FieldUpdate; the component is saved, and is on the device after the
\* call.  (Read in the claim's favour: a component whose validated_save fails
\* validation, or whose related object is missing on the device, may stay absent.)
C1_CreatedUnlessInvalid == []C1_AfterCall /\ [][C1_CreationStep]_vars

C1_Witness ==
    /\ InUpdate /\ tu = 3 /\ todo = {}
    /\ \E i \in DOMAIN log : log[i].msg = "Created" /\ log[i].args = <<"FrontPort">>
    /\ \E r \in WithKey(device, "front_ports", "F1") :
          r.vals.rear_port = <<"rear_ports", device, "R1">>

\* ------------------------------------------------------------------ C2
C2_ExistingStep ==
    \A t \in templates :
        (InUpdate /\ t \in todo /\ WithKey(device, Current.dst, t.vals.name) # {}
            /\ ForTemplate(t)) =>
        /\ BagCardinality(comps') = BagCardinality(comps)
        /\ CountMsg(log', "Created") = CountMsg(log, "Created")
        /\ (RelatedExists(t, device) /\ Accepted(t)) =>
               \E row \in WithKey(device, Current.dst, t.vals.name)' :
                   /\ AgreesWith(row, t, device)
                   /\ comps' = (comps (-) SetToBag(WithKey(device, Current.dst, t.vals.name)))
                               (+) SetToBag({row})

C2_AfterRun ==
    (pc = "done" /\ unchanged /\ CountMsg(log, "Validation failed") = 0) =>
        \A k \in DOMAIN selected :
            \A t \in {u \in templates : u.device_type = job_device_type} :
                LET rows == WithKey(selected[k], DstOf(t.src), t.vals.name)
                IN /\ Cardinality(rows) = 1
                   /\ \A r \in rows : CopiesIn(r, comps) = 1 /\ AgreesWith(r, t, selected[k])

\* C2: when a component with the template's key exists on the device, update creates
\* no component; it sets the listed fields of the existing component to the
\* template's values and saves it; after a run in which no validation failed, every
\* template has exactly one component with its key on every processed device, equal
\* to the template in every listed field without a default.
C2_ExistingUpdated == []C2_AfterRun /\ [][C2_ExistingStep]_vars

C2_Witness ==
    /\ pc = "done" /\ unchanged /\ CountMsg(log, "Validation failed") = 0
    /\ CountMsg(log, "Updated") > 0
    /\ selected # <<>>

\* ------------------------------------------------------------------ C3
C3_FailureStep ==
    \A t \in templates :
        (InUpdate /\ t \in todo /\ ~Accepted(t) /\ RelatedExists(t, device)
            /\ ForTemplate(t)) =>
        /\ comps' = comps
        /\ pc' = "running"
        /\ todo' = todo \ {t}
        /\ log'[Len(log')] = LogEntry("info", "Validation failed", <<"ValidationError">>,
                                      <<Current.dst, device, t.vals.name>>)
        /\ CountMsg(log', "Validation failed") = CountMsg(log, "Validation failed") + 1

\* C3: when saving a component fails validation, update catches the failure: the
\* table of components is left as it was (a new component stays absent), an info
\* entry "Validation failed" is logged with the component as its object, no
\* exception leaves update and the loop continues with the remaining templates.
C3_ValidationCaught == [][C3_FailureStep]_vars

C3_Witness ==
    /\ pc = "running"
    /\ \E i \in DOMAIN log :
          /\ log[i].msg = "Validation failed"
          /\ log[i].obj = <<"interfaces", 1, "eth1">>
          /\ WithKey(1, "interfaces", "eth1") = {}
          /\ \E j \in DOMAIN log : j > i /\ log[j].msg = "Created"

\* ------------------------------------------------------------------ C4
\* C4: a job that repeats the job before it (same device type, same devices,
\* templates unchanged in between) changes no component: none is created, no field
\* is changed, a status set at creation is kept.
C4_Idempotent == [][(rerun /\ pc = "running") => comps' = comps]_vars

C4_Witness ==
    /\ rerun /\ pc = "done"
    /\ Len(selected) = 2
    /\ \E r \in WithKey(1, "interfaces", "eth1") : r.vals.status = <<"Planned">>
    /\ WithKey(1, "front_ports", "F1") # {}

\* ------------------------------------------------------------------ C5
\* C5 as stated: the templates applied to a device are those of the device's own
\* device type, whatever the device_type argument.
C5_OwnDeviceType ==
    InUpdate => \A t \in todo : t.device_type = DeviceTypeOf(device)

\* ------------------------------------------------------------------ C6
Range(seq) == {seq[i] : i \in DOMAIN seq}

EndsInDigits(s) == s # <<>> /\ s[Len(s)] \in Digits

\* position k starts the run of digits the name s ends in
IsTrailingRun(s, k) ==
    /\ k \in 1..Len(s)
    /\ \A j \in k..Len(s) : s[j] \in Digits
    /\ k > 1 => s[k - 1] \notin Digits

\* '<location name>-<role name>' of a device
Convention(d) == LocationName(LocationOf(d)) \o <<"-">> \o RoleName(RoleOf(d))

\* s matches '^<location name>-<role name>\d+$' of device d
MatchesConvention(s, d) ==
    /\ Len(s) > Len(Convention(d))
    /\ SubSeq(s, 1, Len(Convention(d))) = Convention(d)
    /\ \A j \in (Len(Convention(d)) + 1)..Len(s) : s[j] \in Digits

\* a step of the job that calls update_device_name
NameStep == n_pc = "running" /\ n_queue # <<>> /\ NamesForDevice

CountLevel(lg, level) == Cardinality({i \in DOMAIN lg : lg[i].level = level})

\* ------------------------------------------------------------------ C7
C7_RenameStep ==
    NameStep =>
        LET d == Head(n_queue)
            s == names[d]
        IN EndsInDigits(s) =>
              \E k \in 1..Len(s) :
                  /\ IsTrailingRun(s, k)
                  /\ names'[d] = Convention(d) \o SubSeq(s, k, Len(s))

C7_AfterJob ==
    n_pc = "done" =>
        \A d \in Range(n_processed) :
            EndsInDigits(n_before[d]) => MatchesConvention(names[d], d)

\* C7: update_device_name renames a device whose name ends in a run of digits to
\* '<location name>-<role name><those digits>', the digits kept as they are; after
\* the job every processed device whose name ended in digits has a name matching
\* '^<location name>-<role name>\d+$'.
C7_Renamed == []C7_AfterJob /\ [][C7_RenameStep]_vars

C7_Witness ==
    /\ n_pc = "done"
    /\ n_before[1] = <<"d", "1", "2">>
    /\ names[1] = <<"S", "1", "-", "S", "W", "1", "2">>

\* ------------------------------------------------------------------ C8
C8_SkipStep ==
    NameStep =>
        (~EndsInDigits(names[Head(n_queue)]) =>
            /\ names' = names
            /\ n_saved' = n_saved
            /\ Len(n_log') = Len(n_log) + 1
            /\ CountLevel(n_log', "warning") = CountLevel(n_log, "warning") + 1
            /\ n_pc' = "running"
            /\ n_queue' = Tail(n_queue))

\* C8: a device whose name does not end with a digit is skipped: its name is not
\* changed, it is not saved, one warning is logged, and the job goes on with the
\* remaining devices.
C8_Skipped == [][C8_SkipStep]_vars

C8_Witness ==
    /\ n_pc = "done"
    /\ \E i, j \in DOMAIN n_log :
          /\ i < j
          /\ n_log[i].level = "warning"
          /\ n_log[j].msg = "Updating device"
    /\ \E d \in Range(n_processed) : ~EndsInDigits(n_before[d]) /\ names[d] = n_before[d]

\* ------------------------------------------------------------------ C9
\* C9: with devices None or empty the job processes exactly the devices that match
\* every given constraint (location, device_type; None matches all); with a
\* non-empty devices it processes exactly those devices, whatever location and
\* device_type are; the processed devices whose names end in digits are renamed,
\* and the name of every device outside the selection is unchanged.
C9_Selection ==
    LET a == n_args
        expected == IF a.devices.is_none \/ a.devices.list = <<>>
                    THEN {d \in Devices :
                             /\ a.location = 0 \/ LocationOf(d) = a.location
                             /\ a.device_type = 0 \/ DeviceTypeOf(d) = a.device_type}
                    ELSE Range(a.devices.list)
    IN /\ Range(n_processed) \subseteq expected
       /\ \A i, j \in DOMAIN n_processed : n_processed[i] = n_processed[j] => i = j
       /\ \A d \in Devices \ expected : names[d] = n_before[d]
       /\ n_pc = "done" =>
             /\ Range(n_processed) = expected
             /\ \A d \in expected :
                   EndsInDigits(n_before[d]) => MatchesConvention(names[d], d)

C9_Witness ==
    /\ n_pc = "done"
    /\ n_args.devices.list = <<3>>
    /\ n_args.location = 1
    /\ n_args.device_type = 2
    /\ names[3] # n_before[3]
    /\ names[1] = n_before[1] /\ EndsInDigits(names[1])

\* ------------------------------------------------------------------ C10
\* C10 as stated: update_device_name applied to a device it was applied to before
\* leaves the device's name as it is and performs no save.
C10_Idempotent ==
    [][(NameStep /\ Head(n_queue) \in n_applied) =>
           (names' = names /\ n_saved' = n_saved)]_vars

\* ------------------------------------------------------------------ C11
\* C11 as stated: the button receiver calls update_objects once, with the object
\* in the argument that matches its type (objects, location, device_type) and None
\* in the other two.
C11_ButtonCallsUpdateObjects ==
    n_call.obj # NoneObj =>
        /\ n_call.method = "update_objects"
        /\ n_call.kwargs =
               [objects |-> IF isinstance(n_call.obj, "Device") THEN n_call.obj ELSE NoneObj,
                location |-> IF isinstance(n_call.obj, "Location") THEN n_call.obj ELSE NoneObj,
                device_type |-> IF isinstance(n_call.obj, "DeviceType") THEN n_call.obj
                                ELSE NoneObj]

(***************************************************************************)
(* Properties of the port label update job.                                *)
(***************************************************************************)
\* '<device name>-<trailing digits of the port's name>' for a port whose name ends
\* in digits
ExpectedLabel(i) ==
    LET name == PortTable[i].name
        k == CHOOSE j \in 1..Len(name) : IsTrailingRun(name, j)
    IN names[PortTable[i].device] \o <<"-">> \o SubSeq(name, k, Len(name))

\* a step of the job that runs the loop body of update_object for a port
PortStep == p_pc = "running" /\ p_todo # <<>> /\ PortsForPort

\* ------------------------------------------------------------------ C12
\* C12 as stated: after the job every front port and every rear port of every
\* selected device whose name ends in digits has the label
\* '<device name>-<those digits>', whatever its label was before.
C12_LabelledAfterJob ==
    p_pc \in {"done", "raised"} =>
        \A k \in DOMAIN p_selected : \A i \in PortIds :
            (PortTable[i].device = p_selected[k] /\ EndsInDigits(PortTable[i].name)) =>
                labels[i] = ExpectedLabel(i)

\* ------------------------------------------------------------------ C13
C13_SkipStep ==
    (PortStep /\ ~EndsInDigits(PortTable[Head(p_todo)].name)) =>
        LET i == Head(p_todo)
        IN /\ labels' = labels
           /\ p_saved' = p_saved
           /\ Len(p_log') = Len(p_log) + 1
           /\ p_log'[Len(p_log')].level = "warning"
           /\ p_log'[Len(p_log')].args =
                  <<PortTable[i].kind, names[p_device] \o <<":">> \o PortTable[i].name>>
           /\ p_pc' = "running"
           /\ p_todo' = Tail(p_todo)

C13_AllVisited ==
    (p_pc = "running" /\ p_stage = 2 /\ p_todo = <<>>) =>
        \A i \in PortIds : PortTable[i].device = p_device => i \in Range(p_processed)

\* C13: a front or rear port whose name does not end in digits is skipped: its
\* label stays as it is, it is not saved, one warning naming
\* '<device name>:<port name>' is logged, and the loop goes on: when update_object
\* is through with a device, every front and rear port of it was visited.
C13_PortSkipped == []C13_AllVisited /\ [][C13_SkipStep]_vars

C13_Witness ==
    /\ p_pc = "running" /\ p_stage = 2 /\ p_todo = <<>>
    /\ p_processed = <<1, 2, 3, 4>>
    /\ CountLevel(p_log, "warning") = 2
    /\ p_saved = <<2, 3>>
    /\ labels[1] = <<>> /\ labels[4] = <<>>

\* ------------------------------------------------------------------ C14
\* C14: filter_kwargs returns exactly the keyword names it was given, each mapped
\* to the object when the object is of the keyword's type and to None otherwise;
\* the port label button therefore calls update_objects once, for a device with
\* objects=device, location=None, device_type=None.
C14_ButtonKwargs ==
    p_call.obj # NoneObj =>
        /\ p_call.method = "update_objects"
        /\ p_call.kwargs =
               [objects |-> IF p_call.obj[1] = "Device" THEN p_call.obj ELSE NoneObj,
                location |-> IF p_call.obj[1] = "Location" THEN p_call.obj ELSE NoneObj,
                device_type |-> IF p_call.obj[1] = "DeviceType" THEN p_call.obj ELSE NoneObj]

C14_Witness ==
    /\ p_call = Call("update_objects",
                     [objects |-> <<"Device", 1>>, location |-> NoneObj, device_type |-> NoneObj],
                     <<"Device", 1>>)
    /\ p_pc = "running"

\* ------------------------------------------------------------------ C15
\* the platform refuses the port the loop is at when the job saves it
ValidationFails(i) ==
    /\ EndsInDigits(PortTable[i].name)
    /\ labels[i] # ExpectedLabel(i)
    /\ ~port_ok[i]

\* C15 as stated, for the port label job: a validation failure while saving one
\* port is caught and logged, and the remaining ports are still processed.
C15_PortFailureCaught ==
    [][(PortStep /\ ValidationFails(Head(p_todo))) =>
          /\ p_pc' = "running"
          /\ p_todo' = Tail(p_todo)
          /\ CountMsg(p_log', "Validation failed") = CountMsg(p_log, "Validation failed") + 1]_vars

C17_DirectValues ==
    (/\ f_pc = "values"
     /\ f_self.key_field = None
     /\ f_dst # NoneObj
     /\ f_self.default_value # None \/ f_tmpl # NoneObj) =>
        /\ f_values.exc = ""
        /\ f_values.old = f_dst.vals[f_self.name]
        /\ f_values.new = IF f_self.default_value # None THEN f_self.default_value
                          ELSE f_tmpl.vals[f_self.name]

C17_Witness ==
    /\ f_pc = "values"
    /\ f_self = FieldUpdate("label", None, "Ldef", None, None)
    /\ f_tmpl # NoneObj
    /\ f_values = [exc |-> "", old |-> "L0", new |-> "Ldef"]

TemplateRelated == f_tmpl.vals[IF f_self.template_name = None THEN f_self.name
                               ELSE f_self.template_name]

\* C19 as stated: for a relationship field without default, get_values returns the
\* destination's current related object (None when it has none) and, as new value,
\* the object of the query manager (the manager at the attribute path from the
\* destination object) whose key is the key of the template's related object.
C19_RelatedValues ==
    (/\ f_pc = "values"
     /\ f_self.key_field # None
     /\ f_self.default_value = None
     /\ f_dst # NoneObj
     /\ f_tmpl # NoneObj
     /\ TemplateRelated \in {<<"R1">>, <<"P1">>}) =>
        /\ f_values.exc = ""
        /\ f_values.old = f_dst.vals[f_self.name]
        /\ f_values.new = <<IF f_self.name = "rear_port" THEN "rear_ports" ELSE "power_ports",
                            f_dst.device, TemplateRelated[1]>>

\* ------------------------------------------------------------------ C20
\* C20: update assigns the destination field exactly when the old and the new
\* value of get_values differ: when they are equal the object is left as it is and
\* nothing is logged; when they differ the field gets the new value, and one
\* "Updated" info entry is logged exactly when the object is not being created.
C20_WritesWhenDifferent ==
    (f_pc = "updated" /\ f_result.exc = "") =>
        LET v == get_values(f_self, f_dst, f_tmpl, FieldDb)
        IN IF v.old = v.new
           THEN f_result.obj = f_dst /\ f_result.log = <<>>
           ELSE /\ f_result.obj = [f_dst EXCEPT !.vals[f_self.name] = v.new]
                /\ f_result.obj # f_dst
                /\ Len(f_result.log) = IF f_dst.adding THEN 0 ELSE 1
                /\ \A i \in DOMAIN f_result.log :
                       /\ f_result.log[i].level = "info"
                       /\ f_result.log[i].msg = "Updated"
                       /\ f_result.log[i].args = <<f_self.name>>

C20_Witness ==
    /\ f_pc = "updated"
    /\ f_self = PostInit("label")
    /\ f_dst # NoneObj
    /\ ~f_dst.adding
    /\ f_dst.vals.label = "L0"
    /\ f_result.exc = ""
    /\ f_result.obj.vals.label = "L1"
    /\ Len(f_result.log) = 1

(***************************************************************************)
(* Properties of filter_objects.                                           *)
(***************************************************************************)
\* ------------------------------------------------------------------ C21
\* C21: filter_objects raises ValueError when its objects argument is None,
\* whatever the constraints, and does not filter anything.
C21_NoneRaises ==
    (u_pc = "called" /\ u_objects.kind = "None") =>
        /\ u_result.exc = "ValueError"
        /\ ~u_result.filtered
        /\ u_result.items = <<>>

C21_Witness ==
    /\ u_pc = "called"
    /\ u_objects.kind = "None"
    /\ u_kwargs = [location |-> <<"Location", 1>>, device_type |-> NoneObj]
    /\ u_result.exc = "ValueError"

\* ------------------------------------------------------------------ C22
\* the device satisfies every constraint that is not None
Satisfies(d, kwargs) ==
    /\ ("location" \in DOMAIN kwargs /\ kwargs.location # NoneObj) =>
           LocationOf(d) = kwargs.location[2]
    /\ ("device_type" \in DOMAIN kwargs /\ kwargs.device_type # NoneObj) =>
           DeviceTypeOf(d) = kwargs.device_type[2]

\* C22: filter_objects returns exactly the members of its input that satisfy every
\* constraint that is not None, in the input's order; for a model instance the
\* result is the instance alone when it satisfies the constraints, and empty
\* otherwise.
C22_ExactlyMatching ==
    (u_pc = "called" /\ u_objects.kind # "None") =>
        /\ u_result.exc = ""
        /\ u_result.items = SelectSeq(u_objects.items, LAMBDA d : Satisfies(d, u_kwargs))
        /\ u_objects.kind = "Model" =>
               u_result.items = IF Satisfies(u_objects.items[1], u_kwargs)
                                THEN u_objects.items ELSE <<>>

C22_Witness ==
    /\ u_pc = "called"
    /\ u_objects = Objects("QuerySet", <<1, 2, 3>>)
    /\ u_kwargs = [location |-> <<"Location", 1>>, device_type |-> NoneObj]
    /\ u_result.items = <<1, 2>>

(***************************************************************************)
(* Termination of the jobs.                                                *)
(***************************************************************************)
\* what a running job has still to do: devices, update calls and templates of the
\* component update job; devices of the name job; devices, managers and ports of
\* the port label job
CompMeasure ==
    (Len(queue) * (NumTemplateUpdates + 1) + (NumTemplateUpdates - tu))
        * (Cardinality(templates) + 1) + Cardinality(todo)

NamesMeasure == Len(n_queue)

PortsMeasure == (Len(p_queue) * 3 + (2 - p_stage)) * (Cardinality(PortIds) + 1) + Len(p_todo)

NoDuplicates(seq) == \A i, j \in DOMAIN seq : seq[i] = seq[j] => i = j

C23_Decreases ==
    /\ (pc = "running" /\ pc' = "running") =>
           (CompMeasure' < CompMeasure /\ selected' = selected)
    /\ (n_pc = "running" /\ n_pc' = "running") => NamesMeasure' < NamesMeasure
    /\ (p_pc = "running" /\ p_pc' = "running") =>
           (PortsMeasure' < PortsMeasure /\ p_selected' = p_selected)

C23_OnceEach ==
    /\ NoDuplicates(visited)
    /\ NoDuplicates(n_processed)
    /\ NoDuplicates(p_processed)
    /\ pc = "running" => ENABLED CompStep
    /\ n_pc = "running" => ENABLED NamesStep
    /\ p_pc = "running" => ENABLED PortsStep

\* ------------------------------------------------------------------ C23
\* C23: every run of a job ends (it returns or an exception leaves it): a running
\* job always has a next step, no step waits or repeats, every step leaves less to
\* do, every selected record is handled at most once, and what the job creates or
\* renames does not add to what it iterates over.
C23_Terminates ==
    /\ []C23_OnceEach
    /\ [][C23_Decreases]_vars
    /\ (pc = "running") ~> (pc \in {"done", "raised"})
    /\ (n_pc = "running") ~> (n_pc \in {"done", "raised"})
    /\ (p_pc = "running") ~> (p_pc \in {"done", "raised"})

C23_Witness ==
    /\ n_pc = "done"
    /\ Len(n_processed) = 2
    /\ Len(n_saved) = 2
    /\ \A d \in Devices : names[d] # n_before[d] => d \in Range(n_saved)

\* ------------------------------------------------------------------ C24
\* C24: the warning logged for a skipped device, whose name has no trailing digits,
\* reads "Device '<device name>' does not end with digits. Skipping.": the text
\* around the quoted name is "does not end with digits. Skipping." and the quoted
\* name is the device's name.
C24_WarningText ==
    \A i \in DOMAIN n_log :
        n_log[i].level = "warning" =>
            /\ n_log[i].msg = "does not end with digits. Skipping."
            /\ \E d \in Range(n_processed) :
                  ~EndsInDigits(n_before[d]) /\ n_log[i].args = <<n_before[d]>>

\* ------------------------------------------------------------------ C25
\* the collection of the device an attribute path names
Collection(path) ==
    CASE path = "device.rear_ports" -> "rear_ports"
      [] path = "device.power_ports" -> "power_ports"

\* the attribute paths the relationship fields of an update look up
LookedUp(u) ==
    {u.fields[k].query_from : k \in DOMAIN u.fields} \ {None, "Status.objects"}

C25_ListedFirst ==
    \A i \in 1..NumTemplateUpdates : \A q \in LookedUp(TEMPLATE_UPDATES[i]) :
        \E j \in 1..(i - 1) : TEMPLATE_UPDATES[j].dst = Collection(q)

C25_SaveStep ==
    \A t \in templates :
        (ForTemplate(t) /\ comps' # comps) =>
            /\ \A q \in LookedUp(Current) :
                  \E j \in 1..(tu - 1) :
                      /\ TEMPLATE_UPDATES[j].dst = Collection(q)
                      /\ \E k \in DOMAIN visited : visited[k] = <<device, j>>
            /\ RelatedExists(t, device)

\* C25: every collection a relationship field looks up is listed in TEMPLATE_UPDATES
\* before the collection that looks it up (rear ports before front ports, power
\* ports before power outlets); when a front port (power outlet) of a device is
\* created or updated, the update of the rear ports (power ports) was applied to
\* that device earlier in the same run, and the rear port (power port) its
\* template names exists on the device.
C25_LookedUpFirst == []C25_ListedFirst /\ [][C25_SaveStep]_vars

C25_Witness ==
    /\ InUpdate
    /\ Current.dst = "front_ports"
    /\ todo = {}
    /\ \E r \in ComponentsOf(device, "front_ports") :
          r.vals.rear_port = <<"rear_ports", device, "R1">>
    /\ \E i \in DOMAIN log :
          /\ log[i].msg = "Created"
          /\ log[i].args = <<"FrontPort">>
          /\ log[i].obj = <<"Device", device>>
    /\ \E i \in DOMAIN log :
          /\ log[i].msg = "Created"
          /\ log[i].args = <<"RearPort">>
          /\ log[i].obj = <<"Device", device>>

\* ------------------------------------------------------------------ C26
\* a template the job applies names the component: a template of the job's device
\* type, in the source collection of the component's collection, with its key
NamedByTemplate(r) ==
    \E t \in templates :
        /\ t.device_type = job_device_type
        /\ DstOf(t.src) = r.dst
        /\ t.vals.name = r.vals.name

C26_Step ==
    /\ \A r \in BagToSet(comps) : WithKey(r.device, r.dst, r.vals.name)' # {}
    /\ BagCardinality(comps') >= BagCardinality(comps)
    /\ \A r \in BagToSet(comps) \cup BagToSet(comps') :
          (pc = "running" /\ (r.device # device' \/ ~NamedByTemplate(r))) =>
              CopiesIn(r, comps') = CopiesIn(r, comps)
    /\ pc # "running" => comps' = comps

\* C26: the job only adds and updates components: no step removes a component, a
\* component of the device being processed that no applied template names is left
\* as it is, and so is every component of every other device; outside a run the
\* job changes nothing.
C26_AddsAndUpdatesOnly == [][C26_Step]_vars

C26_Witness ==
    /\ pc = "done"
    /\ selected = <<1>>
    /\ job_device_type = 1
    /\ CountMsg(log, "Created") > 0
    /\ CountMsg(log, "Updated") > 0
    /\ \E r \in WithKey(1, "interfaces", "eth9") : r.vals.label = "L0"
    /\ \E r \in WithKey(2, "rear_ports", "R1") : r.vals.label = "L0"
    /\ \E r \in WithKey(3, "power_outlets", "O1") : r.vals.label = "L0"

\* ------------------------------------------------------------------ C27
\* the component a relationship of the row refers to, if it refers to one
Related(r) ==
    IF "rear_port" \in DOMAIN r.vals THEN r.vals.rear_port
    ELSE IF "power_port" \in DOMAIN r.vals THEN r.vals.power_port
    ELSE NoneObj

C27_SameDevice ==
    \A r \in BagToSet(comps) :
        Related(r) # NoneObj =>
            /\ Related(r)[2] = r.device
            /\ Related(r)[1] = (IF r.dst = "front_ports" THEN "rear_ports" ELSE "power_ports")

C27_SetStep ==
    \A t \in templates :
        ForTemplate(t) =>
            \A r \in BagToSet(comps') :
                (CopiesIn(r, comps') # CopiesIn(r, comps) /\ Related(r) # NoneObj) =>
                    /\ r.device = device
                    /\ Related(r)[2] = device
                    /\ WithKey(device, Related(r)[1], Related(r)[3]) # {}

\* C27: every rear port of a front port and every power port of a power outlet is
\* a component of the front port's or power outlet's own device; the one a step of
\* the job sets is a component of the device being processed that exists on it,
\* also when another device has a component with the same name.
C27_RelatedOnSameDevice == []C27_SameDevice /\ [][C27_SetStep]_vars

C27_Witness ==
    /\ pc = "done"
    /\ WithKey(2, "rear_ports", "R1") # {}
    /\ WithKey(1, "rear_ports", "R1") # {}
    /\ \E r \in WithKey(1, "front_ports", "F1") : r.vals.rear_port = <<"rear_ports", 1, "R1">>
    /\ WithKey(3, "rear_ports", "R1") # {}
    /\ \E r \in WithKey(3, "front_ports", "F1") : r.vals.rear_port = <<"rear_ports", 3, "R1">>
    /\ \E r \in WithKey(3, "power_outlets", "O1") : r.vals.power_port = <<"power_ports", 3, "P1">>

\* ------------------------------------------------------------------ C28
\* C28: the names of the devices are distinct after a job when they were distinct
\* before it, also for devices at the same location with the same role whose old
\* names end in the same digits.
C28_NamesDistinct ==
    (/\ n_pc = "done"
     /\ \A d, e \in Devices : d # e => n_before[d] # n_before[e]) =>
        \A d, e \in Devices : d # e => names[d] # names[e]

====
